---- MODULE Spec2Model ----
(***************************************************************************)
(* Model of the BintuBot stream process manager (FFmpegService), the file  *)
(* manager, the in-memory store and the upload timer, as one state machine *)
(* following Node's run-to-completion scheduling: every action is one      *)
(* synchronous run of a handler up to its next await.                      *)
(***************************************************************************)
EXTENDS Integers, Sequences, FiniteSets, TLC

(* ---------------------------------------------------------------- bounds *)
MaxCalls == 3       \* startStream / stopStream calls issued in one run
MaxProcs == 3       \* encoder processes spawned in one run
MaxUploads == 1     \* files uploaded in one run
MaxStreams == 1     \* stream records created in one run
MaxDeletes == 3     \* logged deleteFile calls in one run
MaxClients == 2     \* WebSocket connections accepted in one run
MaxEvents == 3      \* messages broadcast in one run of the event channel
MaxTicks == 1       \* runs of the stats interval in one run
MaxRecords == 3     \* stream records created in one run of the store alone

Ids == {1, 2}                   \* stream ids handed to the manager
Pids == 1..MaxProcs
Calls == 1..MaxCalls
Paths == 1..MaxUploads          \* the k-th uploaded file has path k
NoPath == 0                     \* null videoPath / a path naming no upload
NoPid == 0
Sockets == 1..MaxClients

VARIABLES
  activeStreams,    \* FFmpegService.activeStreams: id -> pid, NoPid when absent
  cleanupCallback,  \* FFmpegService.cleanupCallback is set
  proc,             \* the ChildProcess objects created by spawn
  nproc,            \* number of spawn calls so far
  call,             \* the startStream / stopStream invocations
  ncall,            \* number of invocations so far
  cbCount,          \* pid -> number of cleanup callback invocations it caused
  files,            \* paths that exist in the uploads directory
  nupload,          \* number of uploads so far
  deferred,         \* paths whose 30-minute timer is still armed
  streams,          \* MemStorage.streams: id -> record, NoStream when absent
  streamStats,      \* MemStorage.streamStats: stats id -> record
  currentStreamId,  \* MemStorage.currentStreamId
  currentStatsId,   \* MemStorage.currentStatsId
  req,              \* the control requests: call number -> route handler state
  events,           \* the messages handed to broadcast, in order
  config,           \* the StreamConfig handed to buildFFmpegArgs
  args,             \* the argument array buildFFmpegArgs returned
  deletes,          \* the deleteFile calls the file manager has answered, in order
  originalName,     \* file.originalname of an upload, as its characters
  uniqueName,       \* the name generateUniqueFilename returned for it
  clients,          \* the `clients` set of the routes: WebSocket objects
  readyState,       \* socket -> none | open | closing | closed
  inbox,            \* socket -> the messages its peer has received, in order
  ticks             \* runs of the stats interval so far

mgrVars == <<activeStreams, cleanupCallback, proc, nproc, call, ncall, cbCount>>
fsVars == <<files, nupload, deferred>>
storeVars == <<streams, streamStats, currentStreamId, currentStatsId>>
ctlVars == <<req, events>>
argVars == <<config, args>>
fmVars == <<deletes, originalName, uniqueName>>
wsVars == <<clients, readyState, inbox>>
loopVars == <<ticks>>
vars == <<mgrVars, fsVars, storeVars, ctlVars, argVars, fmVars, wsVars, loopVars>>

NoStream == [id |-> 0, videoPath |-> NoPath, streamKey |-> "", isActive |-> FALSE]
NoStats == [streamId |-> 0, viewerCount |-> 0, uptime |-> 0, ping |-> 0,
            connectionStatus |-> "none"]

\* st: none | running | failed (spawn error pending) | errored | dead (the OS
\* process is gone, 'exit' not yet emitted) | exited ('exit' emitted)
\* obs: stage of the exit observer's inline clean-up;  vp: the videoPath it read
NoProc == [id |-> 0, path |-> NoPath, st |-> "none", sig |-> "none",
           obs |-> "idle", vp |-> NoPath, prev |-> NoPid, cbAtExit |-> FALSE]

\* kind: start | stop;  pc: awaitStop | grace | pending | done
\* tgt: the process captured by stopStream;  lsn: its 'exit' listener
\* timer: the 5 s force-kill timer: none | armed | fired
\* resolved: the stopStream promise;  ret: the value the call returned
NoCall == [kind |-> "none", id |-> 0, path |-> NoPath, pc |-> "none",
           tgt |-> NoPid, lsn |-> "none", timer |-> "none",
           resolved |-> FALSE, ret |-> "none"]

\* a control request: action start | stop; pc: the await it is suspended at;
\* stream: the record read by `storage.getStream(streamId)` when it began
NoReq == [action |-> "none", pc |-> "none", stream |-> NoStream]

NoConfig == [id |-> 0, videoPath |-> "", streamKey |-> "", quality |-> "", mode |-> "",
             loopVideo |-> FALSE, volume |-> 0, isMuted |-> FALSE]

\* the state after construction of the manager, the store and the routes
Constructed ==
  /\ activeStreams = [i \in Ids |-> NoPid]
  /\ cleanupCallback = FALSE
  /\ proc = [p \in Pids |-> NoProc]
  /\ nproc = 0
  /\ call = [c \in Calls |-> NoCall]
  /\ ncall = 0
  /\ cbCount = [p \in Pids |-> 0]
  /\ files = {}
  /\ nupload = 0
  /\ deferred = {}
  /\ streams = [i \in 1..MaxStreams |-> NoStream]
  /\ streamStats = [i \in 1..MaxStreams |-> NoStats]
  /\ currentStreamId = 1
  /\ currentStatsId = 1
  /\ req = [c \in Calls |-> NoReq]
  /\ events = <<>>
  /\ deletes = <<>>
  /\ clients = {}
  /\ readyState = [w \in Sockets |-> "none"]
  /\ inbox = [w \in Sockets |-> <<>>]
  /\ ticks = 0

Init ==
  /\ Constructed
  /\ config = NoConfig /\ args = <<>>
  /\ originalName = <<>> /\ uniqueName = <<>>

(* ------------------------------------------------------------- scheduling *)
\* Promise jobs and nextTick callbacks run before the next timer, I/O event or
\* request: a resolved stopStream awaited by startStream, a failed spawn's
\* 'error', a control request whose startStream / stopStream has returned.
MicroPending ==
  \/ \E p \in Pids : proc[p].st = "failed"
  \/ \E c \in Calls : call[c].kind = "start" /\ call[c].pc = "awaitStop" /\ call[c].resolved
  \/ \E c \in Calls : req[c].pc \in {"start", "stop", "dstop"} /\ call[c].pc = "done"

(* ------------------------------------------------------------ MemStorage *)
Merge(r, u) == [f \in DOMAIN r \cup DOMAIN u |-> IF f \in DOMAIN u THEN u[f] ELSE r[f]]

\* MemStorage.getStream: the record, NoStream for undefined
getStream(id) == IF id \in DOMAIN streams THEN streams[id] ELSE NoStream

\* MemStorage.updateStream: the new streams map
updateStream(id, updates) ==
  IF getStream(id) = NoStream THEN streams
  ELSE [streams EXCEPT ![id] = Merge(@, updates)]

\* MemStorage.createStreamStats: the new streamStats map
createStreamStats(insertStats) ==
  [streamStats EXCEPT ![currentStatsId] =
     [streamId |-> insertStats.streamId,
      viewerCount |-> insertStats.viewerCount,
      uptime |-> insertStats.uptime,
      ping |-> insertStats.ping,
      connectionStatus |-> insertStats.connectionStatus]]

\* MemStorage.getStreamStats: the first stats record of the stream, NoStats
\* for undefined
StatsIdsOf(streamId) == {k \in DOMAIN streamStats : streamStats[k].streamId = streamId}
FirstStatsId(streamId) ==
  CHOOSE k \in StatsIdsOf(streamId) : \A j \in StatsIdsOf(streamId) : k <= j
getStreamStats(streamId) ==
  IF StatsIdsOf(streamId) = {} THEN NoStats ELSE streamStats[FirstStatsId(streamId)]

\* MemStorage.updateStreamStats: the new streamStats map
updateStreamStats(streamId, updates) ==
  IF StatsIdsOf(streamId) = {} THEN streamStats
  ELSE [streamStats EXCEPT ![FirstStatsId(streamId)] = Merge(@, updates)]

\* the destination keys a stream record is created with
StreamKeys == {"", "key"}

\* MemStorage.createStream with insertStream.videoPath = vp and
\* insertStream.streamKey = key
createStreamCall(vp, key) ==
  /\ vp \in Paths \cup {NoPath}
  /\ streams' = [streams EXCEPT ![currentStreamId] =
                   [id |-> currentStreamId, videoPath |-> vp, streamKey |-> key,
                    isActive |-> FALSE]]
  /\ currentStreamId' = currentStreamId + 1
  /\ streamStats' = createStreamStats(
                      [streamId |-> currentStreamId, viewerCount |-> 0, uptime |-> 0,
                       ping |-> 0, connectionStatus |-> "disconnected"])
  /\ currentStatsId' = currentStatsId + 1
  /\ UNCHANGED <<mgrVars, fsVars, ctlVars, argVars, fmVars, wsVars, loopVars>>

\* MemStorage.createStream as the assembled server calls it
createStream(vp, key) ==
  /\ ~MicroPending
  /\ currentStreamId <= MaxStreams
  /\ createStreamCall(vp, key)

\* MemStorage.createStream called on the store alone
storeCreate(vp, key) ==
  /\ currentStreamId <= MaxRecords
  /\ createStreamCall(vp, key)

\* MemStorage.updateStream: the value it returns, NoStream for undefined
updateStreamResult(id, updates) ==
  IF getStream(id) = NoStream THEN NoStream ELSE Merge(getStream(id), updates)

\* the partial records handed to updateStream: PUT passes req.body as it is
Updates == {[isActive |-> TRUE], [videoPath |-> NoPath]} \cup {[id |-> k] : k \in 1..2}

\* MemStorage.updateStream called on the store alone
storeUpdate(id, updates) ==
  /\ streams' = updateStream(id, updates)
  /\ UNCHANGED <<mgrVars, fsVars, streamStats, currentStreamId, currentStatsId, ctlVars,
                 argVars, fmVars, wsVars, loopVars>>

\* a deleteStream that leaves the stats of the stream behind
deleteStreamStatsKept(id) == streamStats

\* MemStorage.deleteStream: the streamStats map it leaves when the stream
\* existed: the first entry whose streamId is id is deleted
deleteStreamStats(id) ==
  IF StatsIdsOf(id) = {} THEN streamStats
  ELSE [streamStats EXCEPT ![FirstStatsId(id)] = NoStats]

\* MemStorage.deleteStream: its result
deleteStreamResult(id) == getStream(id) # NoStream

\* MemStorage.deleteStream called on the store alone
storeDelete(id) ==
  /\ IF deleteStreamResult(id)
     THEN /\ streams' = [streams EXCEPT ![id] = NoStream]
          /\ streamStats' = deleteStreamStats(id)
     ELSE UNCHANGED <<streams, streamStats>>
  /\ UNCHANGED <<mgrVars, fsVars, currentStreamId, currentStatsId, ctlVars, argVars,
                 fmVars, wsVars, loopVars>>

(* ----------------------------------------------------------- FileManager *)
\* FileManager.deleteFile: its result and the files it leaves
deleteFileResult(fs, path) == path \in fs

\* a deleteFile that answers without unlinking
deleteFileKeeps(fs, path) == fs

deleteFile(fs, path) == fs \ {path}

\* the paths deleteFile is called with: the uploads and one that never exists
FilePaths == 1..(MaxUploads + 1)

\* a deleteFile call by any caller, its answer logged
callDeleteFile(path) ==
  /\ Len(deletes) < MaxDeletes
  /\ files' = deleteFile(files, path)
  /\ deletes' = Append(deletes, [path |-> path, by |-> "call",
                                  result |-> deleteFileResult(files, path)])
  /\ UNCHANGED <<mgrVars, nupload, deferred, storeVars, ctlVars, argVars,
                 originalName, uniqueName, wsVars, loopVars>>

\* String.prototype.toLowerCase, on the letters used here
UpperCase == {"A", "B", "E", "I", "K", "M", "O", "P", "V", "W", "X"}
LowerOf ==
  ("A" :> "a") @@ ("B" :> "b") @@ ("E" :> "e") @@ ("I" :> "i") @@ ("K" :> "k") @@
  ("M" :> "m") @@ ("O" :> "o") @@ ("P" :> "p") @@ ("V" :> "v") @@ ("W" :> "w") @@
  ("X" :> "x")
toLowerCase(str) ==
  [i \in 1..Len(str) |-> IF str[i] \in UpperCase THEN LowerOf[str[i]] ELSE str[i]]

\* the position of the last "." of a name, 0 when it has none
LastDot(str) ==
  IF \E i \in 1..Len(str) : str[i] = "."
  THEN CHOOSE i \in 1..Len(str) : str[i] = "." /\ \A j \in (i + 1)..Len(str) : str[j] # "."
  ELSE 0
\* an extname that cuts at the first "."
extnameFirstDot(str) ==
  LET dots == {i \in 1..Len(str) : str[i] = "."}
      first == IF dots = {} THEN 0 ELSE CHOOSE i \in dots : \A j \in dots : i <= j
  IN IF first <= 1 THEN <<>> ELSE SubSeq(str, first, Len(str))

\* path.extname of a name without separators: from the last "." on, empty when
\* the name has no "." or only a leading one, or is ".."
extname(str) ==
  IF LastDot(str) <= 1 \/ str = <<".", ".">> THEN <<>>
  ELSE SubSeq(str, LastDot(str), Len(str))

\* path.basename(name, ext) of a name without separators
basename(str, ext) ==
  IF ext # <<>> /\ Len(str) > Len(ext)
     /\ SubSeq(str, Len(str) - Len(ext) + 1, Len(str)) = ext
  THEN SubSeq(str, 1, Len(str) - Len(ext))
  ELSE str

allowedExtensions ==
  {<<".", "m", "p", "4">>, <<".", "m", "o", "v">>, <<".", "a", "v", "i">>,
   <<".", "m", "k", "v">>, <<".", "w", "e", "b", "m">>}

isValidVideoFile(filename) == toLowerCase(extname(filename)) \in allowedExtensions

\* generateUniqueFilename with Date.now() = timestamp and the random token
generateUniqueFilename(name, timestamp, random) ==
  basename(name, extname(name)) \o <<"_">> \o timestamp \o <<"_">> \o random
    \o extname(name)

\* the names an upload arrives with: a stem followed by an ending
Stems == {<<>>, <<"v">>, <<".">>, <<"a", ".", "b">>, <<"v", ".", "m", "p", "4">>}
Endings ==
  {<<>>, <<".">>, <<".", "m", "p", "4">>, <<".", "M", "P", "4">>, <<".", "M", "o", "v">>,
   <<".", "a", "v", "i">>, <<".", "M", "K", "V">>, <<".", "w", "e", "b", "m">>,
   <<".", "e", "x", "e">>, <<".", "m", "p">>, <<"m", "p", "4">>}
OriginalNames == {stem \o ending : stem \in Stems, ending \in Endings}
Timestamps == {<<"1">>, <<"1", "7">>}
RandomTokens == {<<>>, <<"k", "3">>}

\* multer on an uploaded file: the fileFilter admits the original name, then
\* the filename callback stores generateUniqueFilename(file.originalname)
generateName(timestamp, random) ==
  /\ uniqueName = <<>>
  /\ isValidVideoFile(originalName)
  /\ uniqueName' = generateUniqueFilename(originalName, timestamp, random)
  /\ UNCHANGED <<mgrVars, fsVars, storeVars, ctlVars, argVars, deletes, originalName,
                 wsVars, loopVars>>

(* --------------------------------------------------------- FFmpegService *)
isStreamActive(id) == activeStreams[id] # NoPid
getActiveStreamIds == {i \in Ids : activeStreams[i] # NoPid}

\* The OS process of p is running.
Live(p) == proc[p].st = "running"

\* resolve(true) of the promise stopStream returned; a second resolve is a no-op
Resolve(r) ==
  IF r.resolved THEN r
  ELSE [r EXCEPT !.resolved = TRUE,
                 !.pc = IF r.kind = "stop" THEN "done" ELSE @,
                 !.ret = IF r.kind = "stop" THEN "true" ELSE @]

\* ChildProcess.kill(sig): reaches only a running process; SIGKILL ends it
Kill(procs, p, sig) ==
  IF procs[p].st # "running" THEN procs
  ELSE IF sig = "KILL" THEN [procs EXCEPT ![p].st = "dead", ![p].sig = "KILL"]
  ELSE [procs EXCEPT ![p].sig = "TERM"]

\* stopStream from `new Promise` on: the listener, SIGTERM, the 5 s timer
StopPart(r, p) == [r EXCEPT !.tgt = p, !.lsn = "reg", !.timer = "armed"]

\* startStream from the existsSync check on, run by call c with record r;
\* ok: spawn finds the executable (otherwise 'error' follows, and no 'exit')
SpawnPart(c, r, ok) ==
  IF r.path \notin files
  THEN /\ call' = [call EXCEPT ![c] = [r EXCEPT !.pc = "done", !.ret = "false"]]
       /\ UNCHANGED <<activeStreams, proc, nproc>>
  ELSE /\ nproc < MaxProcs
       /\ nproc' = nproc + 1
       /\ proc' = [proc EXCEPT ![nproc + 1] =
                     [NoProc EXCEPT !.id = r.id, !.path = r.path,
                                    !.st = IF ok THEN "running" ELSE "failed",
                                    !.prev = r.tgt]]
       /\ activeStreams' = [activeStreams EXCEPT ![r.id] = nproc + 1]
       /\ call' = [call EXCEPT ![c] = [r EXCEPT !.pc = "grace"]]

setCleanupCallback ==
  /\ ~MicroPending
  /\ ~cleanupCallback
  /\ cleanupCallback' = TRUE
  /\ UNCHANGED <<activeStreams, proc, nproc, call, ncall, cbCount, fsVars, storeVars, ctlVars, argVars, fmVars, wsVars, loopVars>>

\* startStream up to its first await, for a caller that adds its own state
startStreamCall(id, path, ok) ==
  /\ ~MicroPending
  /\ ncall < MaxCalls
  /\ Cardinality({c \in Calls : call[c].kind = "start"}) < MaxProcs
  /\ ncall' = ncall + 1
  /\ LET c == ncall + 1
         r == [NoCall EXCEPT !.kind = "start", !.id = id, !.path = path]
     IN IF activeStreams[id] # NoPid
        THEN /\ ok    \* no spawn in this step: the outcome input is not read
             /\ call' = [call EXCEPT ![c] =
                           [StopPart(r, activeStreams[id]) EXCEPT !.pc = "awaitStop"]]
             /\ proc' = Kill(proc, activeStreams[id], "TERM")
             /\ UNCHANGED <<activeStreams, nproc>>
        ELSE /\ (path \notin files => ok)    \* likewise when existsSync fails
             /\ SpawnPart(c, r, ok)
  /\ UNCHANGED <<cleanupCallback, cbCount, fsVars, fmVars, wsVars, loopVars>>

startStream(id, path, ok) ==
  startStreamCall(id, path, ok) /\ UNCHANGED <<storeVars, ctlVars, argVars>>

\* startStream after `await this.stopStream(config.id)`
startResume(c, ok) ==
  /\ call[c].kind = "start" /\ call[c].pc = "awaitStop" /\ call[c].resolved
  /\ (call[c].path \notin files => ok)
  /\ SpawnPart(c, call[c], ok)
  /\ UNCHANGED <<cleanupCallback, ncall, cbCount, fsVars, storeVars, ctlVars, argVars, fmVars, wsVars, loopVars>>

\* startStream after the 1000 ms delay
startReturn(c) ==
  /\ ~MicroPending
  /\ call[c].kind = "start" /\ call[c].pc = "grace"
  /\ call' = [call EXCEPT ![c].pc = "done", ![c].ret = "true"]
  /\ UNCHANGED <<activeStreams, cleanupCallback, proc, nproc, ncall, cbCount,
                 fsVars, storeVars, ctlVars, argVars, fmVars, wsVars, loopVars>>

\* stopStream up to the promise it returns, for a caller that adds its own state
stopStreamCall(id) ==
  /\ ~MicroPending
  /\ ncall < MaxCalls
  /\ ncall' = ncall + 1
  /\ LET c == ncall + 1
         r == [NoCall EXCEPT !.kind = "stop", !.id = id]
     IN IF activeStreams[id] = NoPid
        THEN /\ call' = [call EXCEPT ![c] = [r EXCEPT !.pc = "done", !.ret = "false"]]
             /\ UNCHANGED proc
        ELSE /\ call' = [call EXCEPT ![c] =
                           [StopPart(r, activeStreams[id]) EXCEPT !.pc = "pending"]]
             /\ proc' = Kill(proc, activeStreams[id], "TERM")
  /\ UNCHANGED <<activeStreams, cleanupCallback, nproc, cbCount, fsVars, argVars, fmVars, wsVars, loopVars>>

\* stopStream answering true where no handle exists
stopStreamAlwaysTrue(id) ==
  /\ ~MicroPending
  /\ ncall < MaxCalls
  /\ ncall' = ncall + 1
  /\ LET c == ncall + 1
         r == [NoCall EXCEPT !.kind = "stop", !.id = id]
     IN IF activeStreams[id] = NoPid
        THEN /\ call' = [call EXCEPT ![c] = [r EXCEPT !.pc = "done", !.ret = "true"]]
             /\ UNCHANGED proc
        ELSE /\ call' = [call EXCEPT ![c] =
                           [StopPart(r, activeStreams[id]) EXCEPT !.pc = "pending"]]
             /\ proc' = Kill(proc, activeStreams[id], "TERM")
  /\ UNCHANGED <<activeStreams, cleanupCallback, nproc, cbCount, fsVars, storeVars, ctlVars, argVars, fmVars, wsVars, loopVars>>

stopStream(id) ==
  stopStreamCall(id) /\ UNCHANGED <<storeVars, ctlVars>>

\* the encoder ends: end of input, a crash, or its reaction to SIGTERM
procExits(p) ==
  /\ ~MicroPending
  /\ proc[p].st = "running"
  /\ proc' = [proc EXCEPT ![p].st = "dead"]
  /\ UNCHANGED <<activeStreams, cleanupCallback, nproc, call, ncall, cbCount,
                 fsVars, storeVars, ctlVars, argVars, fmVars, wsVars, loopVars>>

\* an 'error' observer that empties the whole table
errorEventClearsTable(p) ==
  /\ proc[p].st = "failed"
  /\ proc' = [proc EXCEPT ![p].st = "errored"]
  /\ activeStreams' = [i \in Ids |-> NoPid]
  /\ UNCHANGED <<cleanupCallback, nproc, call, ncall, cbCount, fsVars, storeVars, ctlVars, argVars, fmVars, wsVars, loopVars>>

\* the 'error' observer of startStream, for a spawn that failed
errorEvent(p) ==
  /\ proc[p].st = "failed"
  /\ proc' = [proc EXCEPT ![p].st = "errored"]
  /\ activeStreams' = [activeStreams EXCEPT ![proc[p].id] = NoPid]
  /\ UNCHANGED <<cleanupCallback, nproc, call, ncall, cbCount, fsVars, storeVars, ctlVars, argVars, fmVars, wsVars, loopVars>>

\* the 'exit' listeners stopStream calls have put on p and that have not run
Listeners(p) == {c \in Calls : call[c].tgt = p /\ call[c].lsn = "reg"}

\* 'exit' is emitted for p: the observer of startStream up to the file system
\* call of cleanupStreamFiles (the imports are of loaded modules and getStream
\* is a map lookup: promise jobs only), then every listener of stopStream up to
\* `await this.cleanupCallback`
exitEvent(p) ==
  /\ ~MicroPending
  /\ proc[p].st = "dead"
  /\ LET ls == Listeners(p)
         n == IF cleanupCallback THEN Cardinality(ls) ELSE 0
         stream == getStream(proc[p].id)
         procs == [proc EXCEPT ![p].st = "exited",
                               ![p].cbAtExit = cleanupCallback,
                               ![p].obs = IF stream.videoPath # NoPath THEN "del" ELSE "done",
                               ![p].vp = stream.videoPath]
         cbs == [cbCount EXCEPT ![p] = @ + n]
     IN /\ proc' = procs
        /\ cbCount' = cbs
        /\ activeStreams' = [activeStreams EXCEPT ![proc[p].id] = NoPid]
        /\ call' = [c \in Calls |->
                      IF c \notin ls THEN call[c]
                      ELSE IF cleanupCallback THEN [call[c] EXCEPT !.lsn = "awaitCb"]
                      ELSE Resolve([call[c] EXCEPT !.lsn = "done"])]
  /\ UNCHANGED <<cleanupCallback, nproc, ncall, fsVars, storeVars, ctlVars, argVars, fmVars, wsVars, loopVars>>

\* the stopStream listener without its try/catch: a rejection leaves it
callbackSettlesNoCatch(c, rejected) ==
  /\ ~MicroPending
  /\ call[c].lsn = "awaitCb"
  /\ call' = [call EXCEPT ![c] = IF rejected THEN [@ EXCEPT !.lsn = "threw"]
                                 ELSE Resolve([@ EXCEPT !.lsn = "done"])]
  /\ UNCHANGED <<activeStreams, cleanupCallback, proc, nproc, ncall, cbCount,
                 fsVars, storeVars, ctlVars, argVars, fmVars, wsVars, loopVars>>

\* the promise of the cleanup callback settles: the listener of stopStream
\* continues after `await this.cleanupCallback(streamId)`, through the catch
\* block when the promise rejected, to `resolve(true)`
\* lsn: none | reg | awaitCb | done | caught | threw (the rejection left the listener)
callbackSettles(c, rejected) ==
  /\ ~MicroPending
  /\ call[c].lsn = "awaitCb"
  /\ call' = [call EXCEPT ![c] =
                Resolve([@ EXCEPT !.lsn = IF rejected THEN "caught" ELSE "done"])]
  /\ UNCHANGED <<activeStreams, cleanupCallback, proc, nproc, ncall, cbCount,
                 fsVars, storeVars, ctlVars, argVars, fmVars, wsVars, loopVars>>

\* Timers run in the order of their due times: the 5 s timer of call c is due
\* after the 5 s timers of earlier calls and after the 1 s delay of a
\* startStream that had spawned before c was made.
TimerDue(c) ==
  \A d \in Calls :
    d < c => /\ call[d].timer # "armed"
             /\ ~(call[d].kind = "start" /\ call[d].pc = "grace" /\ call[d].tgt = NoPid)

\* the 5 s timer of stopStream
timerFires(c) ==
  /\ ~MicroPending
  /\ call[c].timer = "armed"
  /\ TimerDue(c)
  /\ IF activeStreams[call[c].id] # NoPid
     THEN /\ proc' = Kill(proc, call[c].tgt, "KILL")
          /\ activeStreams' = [activeStreams EXCEPT ![call[c].id] = NoPid]
          /\ call' = [call EXCEPT ![c] = Resolve([@ EXCEPT !.timer = "fired"])]
     ELSE /\ call' = [call EXCEPT ![c].timer = "fired"]
          /\ UNCHANGED <<activeStreams, proc>>
  /\ UNCHANGED <<cleanupCallback, nproc, ncall, cbCount, fsVars, storeVars, ctlVars, argVars, fmVars, wsVars, loopVars>>

\* exit observer: the file system work of
\* `await fileManager.cleanupStreamFiles(config.id, stream.videoPath)`
obsDeleteFile(p) ==
  /\ ~MicroPending
  /\ proc[p].obs = "del"
  /\ files' = deleteFile(files, proc[p].vp)
  /\ proc' = [proc EXCEPT ![p].obs = "upd"]
  /\ UNCHANGED <<activeStreams, cleanupCallback, nproc, call, ncall, cbCount,
                 nupload, deferred, storeVars, ctlVars, argVars, fmVars, wsVars, loopVars>>

\* exit observer: cleanupStreamFiles returns, then
\* `await storage.updateStream(config.id, {videoPath: null, isActive: false})`
obsUpdateStream(p) ==
  /\ ~MicroPending
  /\ proc[p].obs = "upd"
  /\ streams' = updateStream(proc[p].id, [videoPath |-> NoPath, isActive |-> FALSE])
  /\ proc' = [proc EXCEPT ![p].obs = "done", ![p].vp = NoPath]
  /\ UNCHANGED <<activeStreams, cleanupCallback, nproc, call, ncall, cbCount,
                 fsVars, streamStats, currentStreamId, currentStatsId, ctlVars, argVars, fmVars, wsVars, loopVars>>

(* ------------------------------------------------------------ environment *)
\* POST /api/upload: multer has stored the file; the 30-minute timer is armed
upload ==
  /\ ~MicroPending
  /\ nupload < MaxUploads
  /\ nupload' = nupload + 1
  /\ files' = files \cup {nupload + 1}
  /\ deferred' = deferred \cup {nupload + 1}
  /\ UNCHANGED <<mgrVars, storeVars, ctlVars, argVars, fmVars, wsVars, loopVars>>

\* a 30-minute timer that only disarms
deferredDeleteSkips(path) ==
  /\ ~MicroPending
  /\ path \in deferred
  /\ deferred' = deferred \ {path}
  /\ files' = files
  /\ UNCHANGED <<mgrVars, nupload, storeVars, ctlVars, argVars, originalName, uniqueName,
                 wsVars, loopVars>>

\* the 30-minute timer of an upload, for a specification that adds the log
deferredDeleteCall(path) ==
  /\ ~MicroPending
  /\ path \in deferred
  /\ deferred' = deferred \ {path}
  /\ files' = deleteFile(files, path)
  /\ UNCHANGED <<mgrVars, nupload, storeVars, ctlVars, argVars, originalName, uniqueName,
                 wsVars, loopVars>>

\* the 30-minute timer of an upload
deferredDelete(path) == deferredDeleteCall(path) /\ UNCHANGED deletes

\* the 30-minute timer of an upload, the answer of its deleteFile logged
timerDelete(path) ==
  /\ deferredDeleteCall(path)
  /\ Len(deletes) < MaxDeletes
  /\ deletes' = Append(deletes, [path |-> path, by |-> "timer",
                                  result |-> deleteFileResult(files, path)])

(* ---------------------------------------------------------- control route *)
\* JSON.stringify of the objects handed to broadcast
stringifyStats(stats) ==
  "{\"viewerCount\":" \o ToString(stats.viewerCount)
    \o ",\"uptime\":" \o ToString(stats.uptime)
    \o ",\"ping\":" \o ToString(stats.ping)
    \o ",\"connectionStatus\":\"" \o stats.connectionStatus \o "\"}"
stringify(data) ==
  "{\"type\":\"" \o data.type \o "\",\"streamId\":" \o ToString(data.streamId)
    \o (IF data.type = "statsUpdate"
        THEN ",\"stats\":" \o stringifyStats(data.stats)
        ELSE "")
    \o "}"

\* a forEach that sends to every client whatever its readyState
sendToAll(messages) ==
  [w \in Sockets |-> IF w \in clients THEN inbox[w] \o messages ELSE inbox[w]]

\* clients.forEach(client => { if (client.readyState === OPEN) client.send(message) })
\* for each of the messages in turn
sendToOpen(messages) ==
  [w \in Sockets |-> IF w \in clients /\ readyState[w] = "open"
                     THEN inbox[w] \o messages ELSE inbox[w]]

\* a broadcast whose message overtakes the ones sent before
broadcastOvertaking(data) ==
  /\ events' = Append(events, data)
  /\ inbox' = [w \in Sockets |-> IF w \in clients /\ readyState[w] = "open"
                                  THEN <<stringify(data)>> \o inbox[w] ELSE inbox[w]]

\* broadcast(data): the message is handed to every open client
broadcast(data) ==
  /\ events' = Append(events, data)
  /\ inbox' = sendToOpen(<<stringify(data)>>)

\* the objects the routes and the stats loop hand to broadcast
Published ==
  [type : {"streamStarted", "streamStopped"}, streamId : 1..MaxStreams]
    \cup {[type |-> "statsUpdate", streamId |-> 1,
           stats |-> [viewerCount |-> 9, uptime |-> u, ping |-> 15,
                      connectionStatus |-> "connected"]] : u \in {5, 10}}

\* a route or the stats loop calls broadcast(data)
publish(data) ==
  /\ Len(events) < MaxEvents
  /\ broadcast(data)
  /\ UNCHANGED <<mgrVars, fsVars, storeVars, req, argVars, fmVars, clients, readyState,
                 loopVars>>

\* wss.on('connection'): the socket is open and joins the clients
wsConnection(w) ==
  /\ readyState[w] = "none"
  /\ readyState' = [readyState EXCEPT ![w] = "open"]
  /\ clients' = clients \cup {w}
  /\ UNCHANGED <<mgrVars, fsVars, storeVars, ctlVars, argVars, fmVars, inbox, loopVars>>

\* a closing handshake starts: the socket is CLOSING, no event yet
wsClosing(w) ==
  /\ readyState[w] = "open"
  /\ readyState' = [readyState EXCEPT ![w] = "closing"]
  /\ UNCHANGED <<mgrVars, fsVars, storeVars, ctlVars, argVars, fmVars, clients, inbox,
                 loopVars>>

\* ws.on('error'): the socket is CLOSING when the event is emitted
wsOnError(w) ==
  /\ readyState[w] \in {"open", "closing"}
  /\ w \in clients
  /\ readyState' = [readyState EXCEPT ![w] = "closing"]
  /\ clients' = clients \ {w}
  /\ UNCHANGED <<mgrVars, fsVars, storeVars, ctlVars, argVars, fmVars, inbox, loopVars>>

\* ws.on('close'): the socket is CLOSED when the event is emitted
wsOnClose(w) ==
  /\ readyState[w] \in {"open", "closing"}
  /\ readyState' = [readyState EXCEPT ![w] = "closed"]
  /\ clients' = clients \ {w}
  /\ UNCHANGED <<mgrVars, fsVars, storeVars, ctlVars, argVars, fmVars, inbox, loopVars>>

\* POST /api/streams/:id/control {action: 'start'} up to
\* `await ffmpegService.startStream(...)`; 404 and 400 answers change nothing
ctlStart(id, ok) ==
  /\ getStream(id) # NoStream
  /\ getStream(id).videoPath # NoPath
  /\ startStreamCall(getStream(id).id, getStream(id).videoPath, ok)
  /\ req' = [req EXCEPT ![ncall + 1] =
                [action |-> "start", pc |-> "start", stream |-> getStream(id)]]
  /\ UNCHANGED <<storeVars, events, argVars>>

\* the start request after startStream returned
ctlStartAfter(c) ==
  /\ req[c].pc = "start" /\ call[c].pc = "done"
  /\ req' = [req EXCEPT ![c].pc = "done"]
  /\ IF call[c].ret = "true"
     THEN /\ streams' = updateStream(req[c].stream.id, [isActive |-> TRUE])
          /\ streamStats' = updateStreamStats(req[c].stream.id,
                               [connectionStatus |-> "connected", uptime |-> 0])
          /\ broadcast([type |-> "streamStarted", streamId |-> req[c].stream.id])
     ELSE UNCHANGED <<streams, streamStats, events, inbox>>
  /\ UNCHANGED <<mgrVars, fsVars, currentStreamId, currentStatsId, argVars, fmVars,
                 clients, readyState, loopVars>>

\* POST /api/streams/:id/control {action: 'stop'} up to
\* `await ffmpegService.stopStream(streamId)`
ctlStop(id) ==
  /\ getStream(id) # NoStream
  /\ stopStreamCall(id)
  /\ req' = [req EXCEPT ![ncall + 1] =
                [action |-> "stop", pc |-> "stop", stream |-> getStream(id)]]
  /\ UNCHANGED <<storeVars, events>>

\* the stop request after stopStream returned, up to the file system call of
\* `await fileManager.deleteFile(stream.videoPath)`
ctlStopAfter(c) ==
  /\ req[c].pc = "stop" /\ call[c].pc = "done"
  /\ streams' = updateStream(req[c].stream.id, [isActive |-> FALSE])
  /\ streamStats' = updateStreamStats(req[c].stream.id,
                       [connectionStatus |-> "disconnected"])
  /\ IF req[c].stream.videoPath # NoPath
     THEN /\ req' = [req EXCEPT ![c].pc = "del"]
          /\ UNCHANGED <<events, inbox>>
     ELSE /\ req' = [req EXCEPT ![c].pc = "done"]
          /\ broadcast([type |-> "streamStopped", streamId |-> req[c].stream.id])
  /\ UNCHANGED <<mgrVars, fsVars, currentStreamId, currentStatsId, argVars, fmVars,
                 clients, readyState, loopVars>>

\* the stop request: the file system work of deleteFile
ctlStopDelete(c) ==
  /\ ~MicroPending
  /\ req[c].pc = "del"
  /\ files' = deleteFile(files, req[c].stream.videoPath)
  /\ req' = [req EXCEPT ![c].pc = "upd"]
  /\ UNCHANGED <<mgrVars, nupload, deferred, storeVars, events, argVars, fmVars, wsVars, loopVars>>

\* the stop request after deleteFile returned
ctlStopFinish(c) ==
  /\ ~MicroPending
  /\ req[c].pc = "upd"
  /\ streams' = updateStream(req[c].stream.id, [videoPath |-> NoPath])
  /\ req' = [req EXCEPT ![c].pc = "done"]
  /\ broadcast([type |-> "streamStopped", streamId |-> req[c].stream.id])
  /\ UNCHANGED <<mgrVars, fsVars, streamStats, currentStreamId, currentStatsId, argVars,
                 fmVars, clients, readyState, loopVars>>

(* -------------------------------------------------------------- stats loop *)
\* the two values of Math.floor(Math.random() * 20) of one iteration
RandomDraws == {<<0, 19>>, <<19, 0>>}

Max(a, b) == IF a >= b THEN a ELSE b

\* a loop that also visits the streams that are not connected
tickedAll(order) == order

\* the ids of the loop, in order, whose stats exist and are 'connected'
ticked(order) ==
  SelectSeq(order, LAMBDA id : getStreamStats(id).connectionStatus = "connected")

\* an iteration whose uptime advances by one second
newStatsBySecond(currentStats, draw) ==
  [viewerCount |-> Max(0, currentStats.viewerCount + draw[1] - 10),
   uptime |-> currentStats.uptime + 1,
   ping |-> 15 + draw[2]]

\* the values one iteration computes from the current stats
newStats(currentStats, draw) ==
  [viewerCount |-> Max(0, currentStats.viewerCount + draw[1] - 10),
   uptime |-> currentStats.uptime + 5,
   ping |-> 15 + draw[2]]

\* the orders Array.from(activeStreams.keys()) can have
Orders(S) ==
  {order \in [1..Cardinality(S) -> S] :
     \A i, j \in 1..Cardinality(S) : order[i] = order[j] => i = j}

\* one run of the setInterval callback: every await settles at once, so the
\* loop runs through before any other task
statsTick(order, draw) ==
  /\ ~MicroPending
  /\ ticks < MaxTicks
  /\ ticks' = ticks + 1
  /\ order \in Orders(getActiveStreamIds)
  /\ LET ids == ticked(order)
         datas == [i \in 1..Len(ids) |->
                     [type |-> "statsUpdate", streamId |-> ids[i],
                      stats |-> Merge(newStats(getStreamStats(ids[i]), draw),
                                      [connectionStatus |-> "connected"])]]
     IN /\ streamStats' =
             [k \in DOMAIN streamStats |->
                IF \E i \in 1..Len(ids) : k = FirstStatsId(ids[i])
                THEN Merge(streamStats[k], newStats(streamStats[k], draw))
                ELSE streamStats[k]]
        /\ events' = events \o datas
        /\ inbox' = sendToOpen([i \in 1..Len(datas) |-> stringify(datas[i])])
  /\ UNCHANGED <<mgrVars, fsVars, streams, currentStreamId, currentStatsId, req, argVars,
                 fmVars, clients, readyState>>

(* ----------------------------------------------------------- delete route *)
\* DELETE /api/streams/:id from `storage.deleteStream` on: 404 when the record
\* is gone, else the answer and the streamDeleted event
deleteAndAnswer(c, id) ==
  IF deleteStreamResult(id)
  THEN /\ streams' = [streams EXCEPT ![id] = NoStream]
       /\ streamStats' = deleteStreamStats(id)
       /\ req' = [req EXCEPT ![c].pc = "done"]
       /\ broadcast([type |-> "streamDeleted", streamId |-> id])
  ELSE /\ req' = [req EXCEPT ![c].pc = "404"]
       /\ UNCHANGED <<streams, streamStats, events, inbox>>

\* DELETE /api/streams/:id up to its first await that leaves the promise
\* jobs: stopStream when the manager has a handle, else the file system call
\* of cleanupStreamFiles, else through to the answer; a 404 changes nothing.
\* The request takes the next call number, with or without a stopStream call.
ctlDelete(id) ==
  /\ getStream(id) # NoStream
  /\ IF isStreamActive(id)
     THEN /\ stopStreamCall(id)
          /\ req' = [req EXCEPT ![ncall + 1] =
                        [action |-> "delete", pc |-> "dstop", stream |-> getStream(id)]]
          /\ UNCHANGED <<storeVars, events, argVars, inbox>>
     ELSE /\ ~MicroPending
          /\ ncall < MaxCalls
          /\ ncall' = ncall + 1
          /\ IF getStream(id).videoPath # NoPath
             THEN /\ req' = [req EXCEPT ![ncall + 1] =
                               [action |-> "delete", pc |-> "dfile", stream |-> getStream(id)]]
                  /\ UNCHANGED <<storeVars, events, inbox>>
             ELSE /\ deleteAndAnswer(ncall + 1, id)
                  /\ UNCHANGED <<currentStreamId, currentStatsId>>
          /\ UNCHANGED <<activeStreams, cleanupCallback, proc, nproc, call, cbCount,
                         fsVars, argVars, fmVars, clients, readyState, loopVars>>

\* the delete request after stopStream returned
ctlDeleteAfter(c) ==
  /\ req[c].pc = "dstop" /\ call[c].pc = "done"
  /\ IF req[c].stream.videoPath # NoPath
     THEN /\ req' = [req EXCEPT ![c].pc = "dfile"]
          /\ UNCHANGED <<streams, streamStats, events, inbox>>
     ELSE deleteAndAnswer(c, req[c].stream.id)
  /\ UNCHANGED <<mgrVars, fsVars, currentStreamId, currentStatsId, argVars, fmVars,
                 clients, readyState, loopVars>>

\* the delete request: the file system work of cleanupStreamFiles
ctlDeleteFile(c) ==
  /\ ~MicroPending
  /\ req[c].action = "delete" /\ req[c].pc = "dfile"
  /\ files' = deleteFile(files, req[c].stream.videoPath)
  /\ req' = [req EXCEPT ![c].pc = "rm"]
  /\ UNCHANGED <<mgrVars, nupload, deferred, storeVars, events, argVars, fmVars, wsVars,
                 loopVars>>

\* the delete request after cleanupStreamFiles returned
ctlDeleteFinish(c) ==
  /\ ~MicroPending
  /\ req[c].pc = "rm"
  /\ deleteAndAnswer(c, req[c].stream.id)
  /\ UNCHANGED <<mgrVars, fsVars, currentStreamId, currentStatsId, argVars, fmVars,
                 clients, readyState, loopVars>>

(* ------------------------------------------------------ encoder arguments *)
\* the object literal of getQualitySettings
settings ==
  ("360p" :> [width |-> 640, height |-> 360, bitrate |-> "1000k", bufsize |-> "2000k"]) @@
  ("480p" :> [width |-> 854, height |-> 480, bitrate |-> "1500k", bufsize |-> "3000k"]) @@
  ("720p" :> [width |-> 1280, height |-> 720, bitrate |-> "3000k", bufsize |-> "6000k"]) @@
  ("1080p" :> [width |-> 1920, height |-> 1080, bitrate |-> "6000k", bufsize |-> "12000k"])

\* keys every object literal inherits from Object.prototype: `settings[key]`
\* finds a function or object there, which is truthy and has none of the four fields
ObjectPrototypeKeys == {"constructor", "toString", "valueOf", "hasOwnProperty", "__proto__"}

\* `settings[quality] || settings['720p']`
getQualitySettings(quality) ==
  IF quality \in DOMAIN settings THEN settings[quality]
  ELSE IF quality \in ObjectPrototypeKeys THEN [inherited |-> quality]
  ELSE settings["720p"]

\* an array element that is undefined
Undefined == "<undefined>"

\* `${o.f}` for a numeric property, and o.f for a string property
Interpolate(o, f) == IF f \in DOMAIN o THEN ToString(o[f]) ELSE "undefined"
Property(o, f) == IF f \in DOMAIN o THEN o[f] ELSE Undefined

\* the volume written without the division by 100
VolumeStringUnscaled(volume) == ToString(volume)

\* `${volume / 100}` for a volume that is a natural number
VolumeString(volume) ==
  LET whole == volume \div 100
      frac == volume % 100
  IN IF frac = 0 THEN ToString(whole)
     ELSE IF frac % 10 = 0 THEN ToString(whole) \o "." \o ToString(frac \div 10)
     ELSE IF frac < 10 THEN ToString(whole) \o ".0" \o ToString(frac)
     ELSE ToString(whole) \o "." \o ToString(frac)

\* the -vf value for a target of w x h
ScalePad(w, h) ==
  "scale=" \o w \o ":" \o h \o ":force_original_aspect_ratio=decrease,pad="
           \o w \o ":" \o h \o ":(ow-iw)/2:(oh-ih)/2:black"

buildFFmpegArgs(cfg) ==
  LET rtmpUrl == "rtmp://a.rtmp.youtube.com/live2/" \o cfg.streamKey
      qualitySettings == getQualitySettings(cfg.quality)
      videoFilter ==
        IF cfg.mode = "mobile" THEN ScalePad("720", "1280")
        ELSE ScalePad(Interpolate(qualitySettings, "width"),
                      Interpolate(qualitySettings, "height"))
      audioFilter ==
        IF cfg.isMuted THEN "volume=0" ELSE "volume=" \o VolumeString(cfg.volume)
  IN <<"-re", "-fflags", "+genpts">>
     \o (IF cfg.loopVideo THEN <<"-stream_loop", "-1">> ELSE <<>>)
     \o <<"-i", cfg.videoPath, "-vf", videoFilter, "-af", audioFilter,
          "-c:v", "libx264", "-preset", "veryfast", "-tune", "zerolatency",
          "-maxrate", Property(qualitySettings, "bitrate"),
          "-bufsize", Property(qualitySettings, "bufsize"),
          "-pix_fmt", "yuv420p", "-g", "60", "-keyint_min", "60",
          "-sc_threshold", "0", "-c:a", "aac", "-b:a", "128k", "-ar", "44100",
          "-ac", "2", "-f", "flv", rtmpUrl>>

\* the file name of the k-th upload
PathName(k) == "uploads/" \o ToString(k)

\* the configurations handed to buildFFmpegArgs: the four classes, an
\* unknown class and an inherited key; the two modes and an unknown one
Qualities == {"360p", "480p", "720p", "1080p", "4k", "constructor"}
Modes == {"desktop", "mobile", "portrait"}
Volumes == {0, 1, 5, 10, 50, 75, 99, 100}
Configs ==
  [id : Ids, videoPath : {PathName(k) : k \in Paths}, streamKey : {"", "key"},
   quality : Qualities, mode : Modes, loopVideo : BOOLEAN, volume : Volumes,
   isMuted : BOOLEAN]

\* `const args = this.buildFFmpegArgs(config)`
buildArgs ==
  /\ args = <<>>
  /\ args' = buildFFmpegArgs(config)
  /\ UNCHANGED <<mgrVars, fsVars, storeVars, ctlVars, config, fmVars, wsVars, loopVars>>

InitArgs ==
  /\ Constructed
  /\ config \in Configs /\ args = <<>>
  /\ originalName = <<>> /\ uniqueName = <<>>
NextArgs == buildArgs
SpecArgs == InitArgs /\ [][NextArgs]_vars

(* ------------------------------------------------- volume from store to encoder *)
\* `x || 75` for a volume, undefined being 0 here
OrDefault(volume) == IF volume = 0 THEN 75 ELSE volume

\* MemStorage.createStream with insertStream.volume and insertStream.isMuted:
\* the record with its playback fields
storeCreateWith(vp, volume, isMuted) ==
  /\ currentStreamId <= MaxStreams
  /\ vp \in Paths \cup {NoPath}
  /\ streams' = [streams EXCEPT ![currentStreamId] =
                   [id |-> currentStreamId, videoPath |-> vp, streamKey |-> "key",
                    isActive |-> FALSE, quality |-> "720p", mode |-> "desktop",
                    loopVideo |-> FALSE, volume |-> OrDefault(volume),
                    isMuted |-> isMuted]]
  /\ currentStreamId' = currentStreamId + 1
  /\ streamStats' = createStreamStats(
                      [streamId |-> currentStreamId, viewerCount |-> 0, uptime |-> 0,
                       ping |-> 0, connectionStatus |-> "disconnected"])
  /\ currentStatsId' = currentStatsId + 1
  /\ UNCHANGED <<mgrVars, fsVars, ctlVars, argVars, fmVars, wsVars, loopVars>>

\* the StreamConfig the start branch of the control route builds from the record
StreamConfig(stream) ==
  [id |-> stream.id, videoPath |-> PathName(stream.videoPath),
   streamKey |-> stream.streamKey, quality |-> stream.quality, mode |-> stream.mode,
   loopVideo |-> stream.loopVideo, volume |-> OrDefault(stream.volume),
   isMuted |-> stream.isMuted]

\* POST /api/streams/:id/control {action: 'start'} up to
\* `await ffmpegService.startStream(...)`, with the config it hands over and
\* the arguments startStream builds when it spawns in this step
ctlStartConfig(id, ok) ==
  /\ getStream(id) # NoStream
  /\ getStream(id).videoPath # NoPath
  /\ startStreamCall(getStream(id).id, getStream(id).videoPath, ok)
  /\ req' = [req EXCEPT ![ncall + 1] =
                [action |-> "start", pc |-> "start", stream |-> getStream(id)]]
  /\ config' = StreamConfig(getStream(id))
  /\ args' = IF nproc' # nproc THEN buildFFmpegArgs(config') ELSE args
  /\ UNCHANGED <<storeVars, events>>

Next ==
  \/ setCleanupCallback
  \/ \E id \in Ids, path \in Paths, ok \in BOOLEAN : startStream(id, path, ok)
  \/ \E c \in Calls, ok \in BOOLEAN : startResume(c, ok)
  \/ \E c \in Calls : startReturn(c)
  \/ \E id \in Ids : stopStream(id)
  \/ \E p \in Pids : procExits(p)
  \/ \E p \in Pids : errorEvent(p)
  \/ \E p \in Pids : exitEvent(p)
  \/ \E c \in Calls, rejected \in BOOLEAN : callbackSettles(c, rejected)
  \/ \E c \in Calls : timerFires(c)
  \/ \E p \in Pids : obsDeleteFile(p)
  \/ \E p \in Pids : obsUpdateStream(p)
  \/ upload
  \/ \E path \in Paths : deferredDelete(path)
  \/ \E vp \in Paths \cup {NoPath} : createStream(vp, "key")   \* the manager reads no key

Spec == Init /\ [][Next]_vars

\* The file manager on its own: uploads arrive, their timers fire, deleteFile is
\* called by the clean-up paths, and an uploaded name is made unique.
InitFiles ==
  /\ Constructed
  /\ config = NoConfig /\ args = <<>>
  /\ originalName \in OriginalNames /\ uniqueName = <<>>

NextFiles ==
  \/ upload
  \/ \E path \in Paths : timerDelete(path)
  \/ \E path \in FilePaths : callDeleteFile(path)
  \/ \E timestamp \in Timestamps, random \in RandomTokens : generateName(timestamp, random)

SpecFiles == InitFiles /\ [][NextFiles]_vars

\* The store on its own, with room for MaxRecords records.
InitStore ==
  /\ activeStreams = [i \in Ids |-> NoPid]
  /\ cleanupCallback = FALSE
  /\ proc = [p \in Pids |-> NoProc]
  /\ nproc = 0
  /\ call = [c \in Calls |-> NoCall]
  /\ ncall = 0
  /\ cbCount = [p \in Pids |-> 0]
  /\ files = {}
  /\ nupload = 0
  /\ deferred = {}
  /\ streams = [i \in 1..MaxRecords |-> NoStream]
  /\ streamStats = [i \in 1..MaxRecords |-> NoStats]
  /\ currentStreamId = 1
  /\ currentStatsId = 1
  /\ req = [c \in Calls |-> NoReq]
  /\ events = <<>>
  /\ config = NoConfig /\ args = <<>>
  /\ deletes = <<>>
  /\ originalName = <<>> /\ uniqueName = <<>>
  /\ clients = {}
  /\ readyState = [w \in Sockets |-> "none"]
  /\ inbox = [w \in Sockets |-> <<>>]
  /\ ticks = 0

NextStore ==
  \/ \E vp \in Paths \cup {NoPath}, key \in StreamKeys : storeCreate(vp, key)
  \/ \E id \in 1..(MaxRecords + 1), updates \in Updates : storeUpdate(id, updates)
  \/ \E id \in 1..(MaxRecords + 1) : storeDelete(id)

SpecStore == InitStore /\ [][NextStore]_vars

\* The way of the volume from the store to the encoder: records are created
\* and updated with a volume, and the control route starts them.
PersistedVolumes == {0, 50, 100}
VolumeUpdates == [volume : PersistedVolumes]

NextGain ==
  \/ upload
  \/ \E vp \in Paths, volume \in PersistedVolumes, isMuted \in BOOLEAN :
       storeCreateWith(vp, volume, isMuted)
  \/ \E id \in 1..MaxStreams, updates \in VolumeUpdates : storeUpdate(id, updates)
  \/ \E id \in 1..MaxStreams, ok \in BOOLEAN : ctlStartConfig(id, ok)
  \/ \E c \in Calls : ctlStartAfter(c)
  \/ \E c \in Calls : startReturn(c)
  \/ \E p \in Pids : errorEvent(p)

SpecGain == Init /\ [][NextGain]_vars

\* POST /api/streams from the client page, which sends the path the upload
\* route answered with, or none
createStreamUploaded(vp) ==
  /\ vp \in (1..nupload) \cup {NoPath}
  /\ createStream(vp, "key")

\* The control route together with the delete route; the destination key is
\* fixed, the upload timers are left out, and a record is created with the
\* path of a file that has been uploaded, or with none.
NextDel ==
  \/ \E vp \in Paths \cup {NoPath} : createStreamUploaded(vp)
  \/ upload
  \/ \E id \in 1..MaxStreams, ok \in BOOLEAN : ctlStart(id, ok)
  \/ \E c \in Calls : ctlStartAfter(c)
  \/ \E id \in 1..MaxStreams : ctlStop(id)
  \/ \E c \in Calls : ctlStopAfter(c)
  \/ \E c \in Calls : ctlStopDelete(c)
  \/ \E c \in Calls : ctlStopFinish(c)
  \/ \E id \in 1..MaxStreams : ctlDelete(id)
  \/ \E c \in Calls : ctlDeleteAfter(c)
  \/ \E c \in Calls : ctlDeleteFile(c)
  \/ \E c \in Calls : ctlDeleteFinish(c)
  \/ \E c \in Calls, ok \in BOOLEAN : startResume(c, ok)
  \/ \E c \in Calls : startReturn(c)
  \/ \E p \in Pids : procExits(p)
  \/ \E p \in Pids : errorEvent(p)
  \/ \E p \in Pids : exitEvent(p)
  \/ \E c \in Calls : timerFires(c)
  \/ \E p \in Pids : obsDeleteFile(p)
  \/ \E p \in Pids : obsUpdateStream(p)

SpecDel == Init /\ [][NextDel]_vars

\* The server as it is assembled: the manager is reached only through the
\* control route, and no cleanup callback is ever registered.
NextCtl ==
  \/ \E vp \in Paths \cup {NoPath}, key \in StreamKeys : createStream(vp, key)
  \/ upload
  \/ \E path \in Paths : deferredDelete(path)
  \/ \E id \in 1..MaxStreams, ok \in BOOLEAN : ctlStart(id, ok)
  \/ \E c \in Calls : ctlStartAfter(c)
  \/ \E id \in 1..MaxStreams : ctlStop(id)
  \/ \E c \in Calls : ctlStopAfter(c)
  \/ \E c \in Calls : ctlStopDelete(c)
  \/ \E c \in Calls : ctlStopFinish(c)
  \/ \E c \in Calls, ok \in BOOLEAN : startResume(c, ok)
  \/ \E c \in Calls : startReturn(c)
  \/ \E p \in Pids : procExits(p)
  \/ \E p \in Pids : errorEvent(p)
  \/ \E p \in Pids : exitEvent(p)
  \/ \E c \in Calls : timerFires(c)
  \/ \E p \in Pids : obsDeleteFile(p)
  \/ \E p \in Pids : obsUpdateStream(p)

SpecCtl == Init /\ [][NextCtl]_vars

\* The control route together with the stats loop; the destination key is
\* fixed and the upload timers are left out.
NextTick ==
  \/ \E vp \in Paths \cup {NoPath} : createStream(vp, "key")
  \/ upload
  \/ \E id \in 1..MaxStreams, ok \in BOOLEAN : ctlStart(id, ok)
  \/ \E c \in Calls : ctlStartAfter(c)
  \/ \E id \in 1..MaxStreams : ctlStop(id)
  \/ \E c \in Calls : ctlStopAfter(c)
  \/ \E c \in Calls : ctlStopDelete(c)
  \/ \E c \in Calls : ctlStopFinish(c)
  \/ \E c \in Calls, ok \in BOOLEAN : startResume(c, ok)
  \/ \E c \in Calls : startReturn(c)
  \/ \E p \in Pids : procExits(p)
  \/ \E p \in Pids : errorEvent(p)
  \/ \E p \in Pids : exitEvent(p)
  \/ \E c \in Calls : timerFires(c)
  \/ \E p \in Pids : obsDeleteFile(p)
  \/ \E p \in Pids : obsUpdateStream(p)
  \/ \E order \in UNION {[1..n -> Ids] : n \in 0..Cardinality(Ids)}, draw \in RandomDraws :
       statsTick(order, draw)

SpecTick == Init /\ [][NextTick]_vars

\* The event channel on its own: sockets connect and go away while events are
\* published.
NextWs ==
  \/ \E w \in Sockets : wsConnection(w)
  \/ \E w \in Sockets : wsClosing(w)
  \/ \E w \in Sockets : wsOnError(w)
  \/ \E w \in Sockets : wsOnClose(w)
  \/ \E data \in Published : publish(data)

SpecWs == Init /\ [][NextWs]_vars

(* ---------------------------------------------------------------- claims *)
\* the encoders spawned for stream id
Encoders(id) == {p \in Pids : proc[p].st # "none" /\ proc[p].id = id}

\* a stopStream promise that targeted p has resolved
StopCompleted(p) == \E c \in Calls : call[c].tgt = p /\ call[c].resolved

\* this step emits 'exit' for p
ExitStep(p) == proc[p].st = "dead" /\ proc'[p].st = "exited"

\* this step resolves the stopStream promise of call c
ResolveStep(c) == ~call[c].resolved /\ call'[c].resolved

\* this step fires the 5 s timer of call c
TimerStep(c) == call[c].timer = "armed" /\ call'[c].timer = "fired"

\* C1: every live encoder process of a stream id is the one the active-handle
\* table records for that id, so at most one live encoder exists per id.
C1_OneLiveEncoderPerId ==
  \A p \in Pids : Live(p) => activeStreams[proc[p].id] = p

\* C2: isStreamActive(id) is true exactly when an encoder started for id has
\* neither been observed to exit nor had a stop of it complete; no handle of a
\* newer encoder is removed on behalf of an older one.
C2_ActiveIffStarted ==
  \A id \in Ids :
    (\A p \in Encoders(id) : proc[p].st # "failed") =>
      (isStreamActive(id) <=>
         \E p \in Encoders(id) : proc[p].st \in {"running", "dead"} /\ ~StopCompleted(p))

\* C3: a force-kill timer that fires after its process has exited changes
\* nothing: no signal, no change of the active-handle table, no resolve.
C3_LateTimerNoOp ==
  [][\A c \in Calls :
       (TimerStep(c) /\ proc[call[c].tgt].st = "exited")
       => (activeStreams' = activeStreams /\ proc' = proc
             /\ call'[c].resolved = call[c].resolved)]_vars

\* C4: after a start replaced the encoder of its id, the new encoder's handle
\* stays in the table until a stop or exit of the new encoder, and the cleanup
\* callback has fired exactly once for the replaced process.
C4_RestartKeepsOneHandle ==
  \A p \in Pids :
    (proc[p].prev # NoPid /\ Live(p) /\ ~\E c \in Calls : call[c].tgt = p)
    => /\ activeStreams[proc[p].id] = p
       /\ (proc[proc[p].prev].cbAtExit => cbCount[proc[p].prev] = 1)

\* C5: when a stopStream promise resolves, the exit of its process has been
\* observed and the cleanup callback has been invoked exactly once for it.
C5_ResolveAfterTeardown ==
  [][\A c \in Calls :
       ResolveStep(c) =>
         /\ proc'[call[c].tgt].st = "exited"
         /\ (proc'[call[c].tgt].cbAtExit => cbCount'[call[c].tgt] = 1)]_vars

\* C6: for an encoder that stopStream was called on, overlapping or racing a
\* spontaneous exit, the cleanup callback runs exactly once.
C6_CleanupOncePerLifecycle ==
  \A p \in Pids :
    (proc[p].st = "exited" /\ proc[p].cbAtExit /\ \E c \in Calls : call[c].tgt = p)
    => cbCount[p] = 1

\* C7: with a cleanup callback registered, every observed encoder exit,
\* requested or spontaneous, has invoked it.
C7_CallbackOnEveryExit ==
  \A p \in Pids : (proc[p].st = "exited" /\ proc[p].cbAtExit) => cbCount[p] >= 1

\* C8: when a start that found an encoder running makes its new handle
\* visible, the registered cleanup callback has already fired for the
\* replaced process.
C8_CleanupBeforeNewHandle ==
  [][\A c \in Calls :
       (call[c].pc = "awaitStop" /\ call'[c].pc = "grace" /\ cleanupCallback)
       => cbCount[call[c].tgt] >= 1]_vars

\* C9: when the 5 s timer of a stopStream fires on an encoder that is still
\* running, the encoder is killed and the call returns true, and when the
\* killed encoder's exit is observed the cleanup callback fires exactly once.
C9_ForcedStopCleansOnce ==
  [][/\ \A c \in Calls :
          (TimerStep(c) /\ Live(call[c].tgt))
          => /\ proc'[call[c].tgt].sig = "KILL" /\ ~Live(call[c].tgt)'
             /\ call'[c].resolved
             /\ (call[c].kind = "stop" => call'[c].ret = "true")
     /\ \A p \in Pids :
          (ExitStep(p) /\ proc[p].sig = "KILL" /\ cleanupCallback)
          => cbCount'[p] = 1]_vars

\* C10: stopStream on an id with no active handle returns false and changes
\* nothing else: no table entry, no process, no timer, no listener, no callback.
C10_StopWithoutHandle ==
  [][\A id \in Ids :
       (ncall' = ncall + 1 /\ call'[ncall'].kind = "stop" /\ call'[ncall'].id = id
          /\ activeStreams[id] = NoPid)
       => /\ call'[ncall'].ret = "false"
          /\ call'[ncall'].timer = "none" /\ call'[ncall'].lsn = "none"
          /\ \A c \in Calls \ {ncall'} : call'[c] = call[c]
          /\ UNCHANGED <<activeStreams, cleanupCallback, proc, nproc, cbCount,
                         fsVars, storeVars, ctlVars, argVars, fmVars, wsVars, loopVars>>]_vars

\* a stopStream has returned false for an id whose encoder had exited, while
\* the encoder an earlier start spawned for the other id is running
C10_Witness ==
  \E c \in Calls, d \in Calls, p \in Pids, q \in Pids :
    /\ call[c].kind = "stop" /\ call[c].ret = "false"
    /\ d < c /\ call[d].kind = "start" /\ call[d].id # call[c].id
    /\ Live(p) /\ proc[p].id = call[d].id /\ activeStreams[proc[p].id] = p
    /\ proc[q].id = call[c].id /\ proc[q].st = "exited"

\* this step is the synchronous part of a new startStream / stopStream call
CallStep(kind) == ncall' = ncall + 1 /\ call'[ncall'].kind = kind

\* C11: a startStream call whose source path names no existing file returns
\* failure, spawns no process and mutates nothing: the active-handle table and
\* any encoder already running for that id are exactly as before the call.
C11_MissingFileNoMutation ==
  [][(CallStep("start") /\ call'[ncall'].path \notin files)
       => /\ call'[ncall'].ret = "false"
          /\ UNCHANGED <<activeStreams, proc, nproc>>]_vars

\* C12: startStream never returns success for an id whose handle is absent at
\* the moment it returns; a spawn failure inside the grace delay removes the
\* handle, so the call returns failure.
C12_NoSuccessWithoutHandle ==
  [][\A c \in Calls :
       (call[c].kind = "start" /\ call[c].ret # "true" /\ call'[c].ret = "true")
       => activeStreams'[call[c].id] # NoPid]_vars

\* C16: a failure inside cleanup is never escalated: a rejecting callback, a
\* file already deleted or a stream record that is gone does not leave the
\* process-exit handlers, the exit still removes the handle, and the pending
\* stopStream still resolves true.
C16_CleanupFailureContained ==
  [][/\ \A c \in Calls :
          /\ call'[c].lsn # "threw"
          /\ (call[c].lsn = "awaitCb" /\ call'[c].lsn # "awaitCb")
               => (call'[c].resolved /\ (call[c].kind = "stop" => call'[c].ret = "true"))
     /\ \A p \in Pids :
          /\ ExitStep(p) => activeStreams'[proc[p].id] = NoPid
          /\ (proc[p].obs = "del" /\ proc'[p].obs # "del") => proc'[p].obs = "upd"
          /\ (proc[p].obs = "upd" /\ proc'[p].obs # "upd") => proc'[p].obs = "done"]_vars

\* a callback rejected and the stop that awaited it returned true; two exit
\* observers have both passed deleteFile of one path, so one found it deleted
C16_Witness ==
  \E c \in Calls, p \in Pids, q \in Pids :
    /\ call[c].kind = "stop" /\ call[c].lsn = "caught" /\ call[c].ret = "true"
    /\ activeStreams[call[c].id] = NoPid
    /\ p # q /\ proc[p].obs = "upd" /\ proc[q].obs = "upd" /\ proc[p].vp = proc[q].vp

\* the argument that follows flag in the array
ArgOf(flag) == args[(CHOOSE i \in 1..Len(args) : args[i] = flag) + 1]

\* the class entry the lookup table assigns to a quality value
TableEntry(quality) ==
  CASE quality = "360p" -> [width |-> "640", height |-> "360", bitrate |-> "1000k", bufsize |-> "2000k"]
    [] quality = "480p" -> [width |-> "854", height |-> "480", bitrate |-> "1500k", bufsize |-> "3000k"]
    [] quality = "1080p" -> [width |-> "1920", height |-> "1080", bitrate |-> "6000k", bufsize |-> "12000k"]
    [] OTHER -> [width |-> "1280", height |-> "720", bitrate |-> "3000k", bufsize |-> "6000k"]

\* C19: in portrait mode the video filter scales and pads to exactly 720x1280
\* whatever the resolution class; for every other mode value it scales and
\* pads to the width x height of the resolution class's table entry.
C19_ModeGeometry ==
  args # <<>> =>
    ArgOf("-vf") = IF config.mode = "mobile" THEN ScalePad("720", "1280")
                   ELSE ScalePad(TableEntry(config.quality).width,
                                 TableEntry(config.quality).height)

\* C20: every quality value that is not one of the four classes yields exactly
\* the 720p entry (1280x720, 3000k, 6000k), in the geometry of the filter and
\* in the -maxrate and -bufsize arguments.
C20_UnknownQualityFallsBack ==
  (args # <<>> /\ config.quality \notin {"360p", "480p", "720p", "1080p"}) =>
    /\ ArgOf("-maxrate") = "3000k"
    /\ ArgOf("-bufsize") = "6000k"
    /\ (config.mode # "mobile" => ArgOf("-vf") = ScalePad("1280", "720"))

\* nothing is in progress: every process has had its exit or error observed,
\* and no call, control request, exit observer or force-kill timer is pending
Quiescent ==
  /\ \A p \in Pids : proc[p].st \in {"none", "errored", "exited"}
                      /\ proc[p].obs \in {"idle", "done"}
  /\ \A c \in Calls : call[c].pc \in {"none", "done"} /\ call[c].timer # "armed"
                       /\ req[c].pc \in {"none", "done"}

\* the encoders of stream id that have terminated
Terminated(id) == {p \in Pids : proc[p].id = id /\ proc[p].st = "exited"}

\* the streamStopped events published for stream id
StoppedEvents(id) ==
  {i \in 1..Len(events) : events[i] = [type |-> "streamStopped", streamId |-> id]}

\* C13: after every encoder termination, requested through the control route
\* or spontaneous, and whatever the stream record held at that moment, cleanup
\* leaves the record, if it still exists, with videoPath cleared and isActive
\* false: so it is when nothing is left to run.
C13_CleanupClearsRecord ==
  Quiescent =>
    \A id \in 1..MaxStreams :
      (Terminated(id) # {} /\ getStream(id) # NoStream)
      => (getStream(id).videoPath = NoPath /\ ~getStream(id).isActive)

\* C14: every encoder termination, requested or spontaneous, is followed by
\* exactly one streamStopped event carrying its stream id: when nothing is left
\* to run there are as many such events as terminations.
C14_OneStoppedEventPerTermination ==
  Quiescent =>
    \A id \in 1..MaxStreams :
      Terminated(id) # {} =>
        Cardinality(StoppedEvents(id)) = Cardinality(Terminated(id))

\* C15: once the cleanup of an encoder termination has completed, the persisted
\* connection status of a stream with no active handle is disconnected, never
\* connected.
C15_StatusResetOnTermination ==
  Quiescent =>
    \A id \in 1..MaxStreams :
      (Terminated(id) # {} /\ ~isStreamActive(id))
      => getStreamStats(id).connectionStatus = "disconnected"

\* C17: the control route never invokes startStream for a stream whose
\* streamKey is empty: such a start request is rejected before any spawn.
C17_NoStartWithEmptyKey ==
  \A c \in Calls :
    (req[c].action = "start" /\ call[c].kind = "start") => req[c].stream.streamKey # ""

\* the decimal numeral of volume / 100
GainText ==
  (0 :> "0") @@ (1 :> "0.01") @@ (5 :> "0.05") @@ (10 :> "0.1") @@ (50 :> "0.5") @@
  (75 :> "0.75") @@ (99 :> "0.99") @@ (100 :> "1")

\* C21: in the arguments built the audio gain is zero whenever the mute flag is
\* set, whatever the volume, and otherwise volume/100 for every volume in
\* 0..100; a 720p landscape config yields the 1280x720 scale/pad filter.
C21_AudioGain ==
  args # <<>> =>
    /\ ArgOf("-af") = IF config.isMuted THEN "volume=0"
                      ELSE "volume=" \o GainText[config.volume]
    /\ (config.quality = "720p" /\ config.mode = "desktop")
         => ArgOf("-vf") = ScalePad("1280", "720")

\* the scenario: 720p, landscape, not looping, volume 50, unmuted
C21_Witness ==
  /\ args # <<>>
  /\ config.quality = "720p" /\ config.mode = "desktop" /\ ~config.loopVideo
  /\ config.volume = 50 /\ ~config.isMuted
  /\ ArgOf("-af") = "volume=0.5"
  /\ ArgOf("-vf") = ScalePad("1280", "720")

\* this step is a deleteFile call that has answered
DeleteStep == Len(deletes') = Len(deletes) + 1
LastDelete == deletes'[Len(deletes')]

VideoExtensions ==
  {<<".", "m", "p", "4">>, <<".", "m", "o", "v">>, <<".", "a", "v", "i">>,
   <<".", "m", "k", "v">>, <<".", "w", "e", "b", "m">>}

\* the name is a non-empty stem followed by an allowed extension in any case
HasVideoExtension(name) ==
  \E e \in VideoExtensions :
    /\ Len(name) > Len(e)
    /\ toLowerCase(SubSeq(name, Len(name) - Len(e) + 1, Len(name))) = e

NewMessages ==
  [i \in 1..(Len(events') - Len(events)) |-> stringify(events'[Len(events) + i])]

\* C25: a published event is delivered to every observer that is connected and
\* open at publish time and to no other; a closing or closed observer is
\* skipped while the others still receive it; nothing is delivered without a
\* publication; an observer whose connection has closed is not in the set.
C25_DeliveryToOpen ==
  [][/\ \A w \in Sockets :
          inbox'[w] = IF readyState[w] = "open" THEN inbox[w] \o NewMessages
                      ELSE inbox[w]
     /\ \A w \in Sockets : readyState'[w] = "closed" => w \notin clients']_vars

\* a closing observer still in the set missed the event the open one received
C25_Witness ==
  \E w1, w2 \in Sockets :
    /\ w1 \in clients /\ readyState[w1] = "closing"
    /\ w2 \in clients /\ readyState[w2] = "open"
    /\ Len(events) = 2
    /\ inbox[w1] = <<stringify(events[1])>>
    /\ inbox[w2] = <<stringify(events[1]), stringify(events[2])>>

\* C26: what an observer has received is a run of consecutive published events
\* in publish order, lifecycle events and stats updates alike, each delivery
\* the whole text of one event.
C26_PublishOrder ==
  \A w \in Sockets :
    \E k \in 0..Len(events) :
      /\ Len(inbox[w]) <= Len(events) - k
      /\ \A i \in 1..Len(inbox[w]) : inbox[w][i] = stringify(events[k + i])

\* an observer that connected after the first event received a stats update
\* and then the stop of the stream
C26_Witness ==
  \E w \in Sockets :
    /\ Len(events) = 3 /\ Len(inbox[w]) = 2
    /\ events[1].type = "streamStarted"
    /\ events[2].type = "statsUpdate" /\ events[3].type = "streamStopped"
    /\ inbox[w][1] = stringify(events[2])
    /\ inbox[w][2] = "{\"type\":\"streamStopped\",\"streamId\":1}"

\* this step is a run of the stats loop; the events it publishes
TickStep == ticks' = ticks + 1
NewEvents == {events'[i] : i \in (Len(events) + 1)..Len(events')}
NewEventsOf(id) == {e \in NewEvents : e.streamId = id}
StatsKeysOf(id) == {k \in DOMAIN streamStats : streamStats[k].streamId = id}

\* C27: a run of the stats loop changes no stats field of, and publishes no
\* event for, a stream whose status is not 'connected', and changes the
\* connection status of no stream.
C27_TickFrame ==
  [][TickStep =>
       \A k \in DOMAIN streamStats :
         /\ streamStats'[k].connectionStatus = streamStats[k].connectionStatus
         /\ streamStats[k].connectionStatus # "connected"
              => /\ streamStats'[k] = streamStats[k]
                 /\ NewEventsOf(streamStats[k].streamId) = {}]_vars

\* the loop has run while the encoder of stream 1 was registered and its
\* status was not 'connected': nothing was published, nothing counted
C27_Witness ==
  /\ ticks = 1
  /\ isStreamActive(1)
  /\ getStreamStats(1).streamId = 1
  /\ getStreamStats(1).connectionStatus = "disconnected"
  /\ getStreamStats(1).uptime = 0
  /\ events = <<>>

StoppedLast(id) ==
  \E j \in 1..Len(events) :
    /\ events[j].type = "streamStopped" /\ events[j].streamId = id
    /\ \A i \in (j + 1)..Len(events) :
         ~(events[i].type = "streamStarted" /\ events[i].streamId = id)

\* C29: a run of the stats loop modifies no stats record of, and publishes no
\* statsUpdate for, a stream id without an active handle, so that no
\* statsUpdate for a stream follows its streamStopped unless a start of the
\* stream came in between.
C29_OnlyActiveTouched ==
  [][TickStep =>
       \A id \in Ids :
         /\ ~isStreamActive(id) =>
              /\ NewEventsOf(id) = {}
              /\ \A k \in StatsKeysOf(id) : streamStats'[k] = streamStats[k]
         /\ StoppedLast(id) => NewEventsOf(id) = {}]_vars

\* C30: the persisted uptime of a stream is never negative and never decreases
\* from one state to the next while its connection status stays 'connected',
\* whatever ticks and start or stop requests occur, a start of a running
\* stream included.
C30_UptimeMonotone ==
  [][\A k \in DOMAIN streamStats :
       /\ streamStats'[k].uptime >= 0
       /\ (/\ streamStats[k].connectionStatus = "connected"
           /\ streamStats'[k].connectionStatus = "connected"
           /\ streamStats'[k].streamId = streamStats[k].streamId)
          => streamStats'[k].uptime >= streamStats[k].uptime]_vars

\* the keys under which the store holds a stream
Existing == {k \in DOMAIN streams : streams[k] # NoStream}

\* C31: after any createStream and deleteStream calls every existing stream
\* has exactly one stats record and no stats record refers to a stream that is
\* not in the store; the stats record created with a stream has viewerCount 0,
\* uptime 0, ping 0 and status 'disconnected'.
C31_StatsFollowStreams ==
  /\ \A k \in Existing : Cardinality(StatsIdsOf(k)) = 1
  /\ \A j \in DOMAIN streamStats :
       streamStats[j] # NoStats =>
         /\ streamStats[j].streamId \in Existing
         /\ streamStats[j] = [streamId |-> streamStats[j].streamId, viewerCount |-> 0,
                              uptime |-> 0, ping |-> 0,
                              connectionStatus |-> "disconnected"]

\* the first stream was deleted with its stats, the second is there with its own
C31_Witness ==
  /\ Existing = {2}
  /\ currentStreamId = 3
  /\ streamStats[1] = NoStats
  /\ streamStats[2].streamId = 2

\* C37: every stream record stored under key k has id k; createStream hands
\* out strictly increasing ids and never one that was used before, deleted or
\* not; updateStream on an unknown id returns not-found and changes nothing.
C37_KeysAndIds ==
  /\ [](\A k \in Existing : streams[k].id = k)
  /\ [](\A id \in (1..(MaxRecords + 1)) \ Existing, updates \in Updates :
         /\ updateStreamResult(id, updates) = NoStream
         /\ updateStream(id, updates) = streams)
  /\ [][/\ currentStreamId' >= currentStreamId
        /\ \A k \in DOMAIN streams :
             (streams[k] = NoStream /\ streams'[k] # NoStream)
               => /\ k = currentStreamId /\ currentStreamId' = k + 1
                  /\ \A j \in Existing : j < k]_vars

\* the stopStream of call c (its own, or the one a startStream awaits) has not
\* resolved, its encoder runs without a SIGKILL, the handle of the id is no
\* longer that encoder, and no force-kill timer aimed at the encoder is armed:
\* nothing but the encoder's own decision to exit can resolve the call
Stranded(c) ==
  /\ call[c].tgt # NoPid
  /\ ~call[c].resolved
  /\ proc[call[c].tgt].st = "running"
  /\ activeStreams[call[c].id] # call[c].tgt
  /\ \A d \in Calls : call[d].tgt = call[c].tgt => call[d].timer # "armed"

\* C32: every stopStream call on an id with an active handle eventually
\* resolves and its encoder is eventually terminated, even when the encoder
\* ignores SIGTERM and other calls and timers for the id are in flight. In
\* finite runs: no unresolved stopStream is ever left with a running encoder
\* that nothing will force-kill.
C32_StopResolves == \A c \in Calls : ~Stranded(c)

\* C35: for a stream started through the control endpoint and not muted, the
\* audio gain in the encoder arguments is the persisted volume divided by 100,
\* for every persisted volume in 0..100, 0 included.
C35_GainIsPersistedVolume ==
  [][(ncall' = ncall + 1 /\ nproc' = nproc + 1)
       => \E k \in Existing :
            /\ config'.id = streams[k].id
            /\ ~streams[k].isMuted
                 => args'[(CHOOSE i \in 1..Len(args') : args'[i] = "-af") + 1]
                      = "volume=" \o GainText[streams[k].volume]]_vars

\* C33: while an encoder is the active handle of its stream and runs, its
\* source file exists: neither the deferred deletion armed at upload nor the
\* exit-time clean-up of a replaced encoder of the stream removes it.
C33_SourceFileKept ==
  \A id \in Ids :
    (isStreamActive(id) /\ Live(activeStreams[id]))
      => proc[activeStreams[id]].path \in files

\* the control request of call c is answered in this step
StartAnswered(c) ==
  req[c].action = "start" /\ req[c].pc # "done" /\ req'[c].pc = "done"
StopAnswered(c) ==
  req[c].action = "stop" /\ req[c].pc # "done" /\ req'[c].pc = "done"

\* C34: when the control endpoint answers a start with success, the store says
\* isActive and 'connected' only if the manager holds a handle for the stream;
\* when it answers a stop, the store says not active, 'disconnected' and no
\* videoPath, and the manager holds no handle.
C34_StoreAgreesWithManager ==
  [][\A c \in Calls :
       /\ (StartAnswered(c) /\ call[c].ret = "true")
            => ((/\ streams'[req[c].stream.id].isActive
                 /\ streamStats'[FirstStatsId(req[c].stream.id)].connectionStatus
                      = "connected")
                => activeStreams'[req[c].stream.id] # NoPid)
       /\ StopAnswered(c)
            => /\ ~streams'[req[c].stream.id].isActive
               /\ streamStats'[FirstStatsId(req[c].stream.id)].connectionStatus
                    = "disconnected"
               /\ streams'[req[c].stream.id].videoPath = NoPath
               /\ activeStreams'[req[c].stream.id] = NoPid]_vars

\* the stream ids of the calls and encoders whose state changes in this step
ActorIds ==
  {call'[c].id : c \in {d \in Calls : call'[d] # call[d]}}
    \cup {proc'[p].id : p \in {q \in Pids : proc'[q] # proc[q]}}

\* C36: a step of startStream, stopStream or of an exit, error or timer
\* callback of stream id X changes the calls and encoders of X only, and
\* leaves the handle entry, the record and the stats of every other id as
\* they were.
C36_OtherIdsUntouched ==
  [][ActorIds # {} =>
       /\ Cardinality(ActorIds) = 1
       /\ \A y \in Ids \ ActorIds :
            /\ activeStreams'[y] = activeStreams[y]
            /\ getStream(y) = IF y \in DOMAIN streams THEN streams'[y] ELSE NoStream
            /\ \A k \in DOMAIN streamStats :
                 streamStats[k].streamId = y => streamStats'[k] = streamStats[k]]_vars

\* a forced stop of stream 1 has run to its end, and so has the clean-up of
\* its encoder, while the encoder of stream 2 runs under its handle
C36_Witness ==
  /\ isStreamActive(2) /\ Live(activeStreams[2]) /\ proc[activeStreams[2]].id = 2
  /\ ~isStreamActive(1)
  /\ \E c \in Calls :
       /\ call[c].kind = "stop" /\ call[c].id = 1
       /\ call[c].timer = "fired" /\ call[c].resolved
       /\ proc[call[c].tgt].sig = "KILL" /\ proc[call[c].tgt].st = "exited"

\* the DELETE requests for stream id that were answered with success
DeletedBy(id) ==
  {c \in Calls : req[c].action = "delete" /\ req[c].pc = "done" /\ req[c].stream.id = id}

\* C38: once a DELETE of a stream has been answered with success, and ever
\* after, the stream has no active handle and no live encoder, its record and
\* its stats are not in the store, and its video file does not exist.
C38_DeletedStaysGone ==
  \A id \in 1..MaxStreams :
    \A c \in DeletedBy(id) :
      /\ ~isStreamActive(id)
      /\ \A p \in Encoders(id) : ~Live(p)
      /\ getStream(id) = NoStream
      /\ StatsIdsOf(id) = {}
      /\ req[c].stream.videoPath \notin files
====
